---- MODULE Spec2Model ----
(***************************************************************************)
(* PDFDocumentWriter: the two write paths that turn a PDFDocument into the *)
(* bytes of a PDF file.                                                    *)
(*                                                                         *)
(*   saveToBytes                    header, body sorted by object number,  *)
(*                                  classic cross-reference table, trailer *)
(*   saveToBytesWithObjectStreams   header, stream objects, one synthesized*)
(*                                  object stream, cross-reference stream, *)
(*                                  pointer trailer                        *)
(*                                                                         *)
(* Both are synchronous functions, so each is one action.  The state is    *)
(* the document (index, maxObjNum) and what the latest call computed: its  *)
(* sequences, cross-reference section, trailer, buffer, the copies it made *)
(* in the order it made them, and the cursor it ended with.                *)
(*                                                                         *)
(* A byte of the buffer is modelled by the unit that wrote it, so gaps and *)
(* overlaps between sections are visible in the buffer itself.             *)
(***************************************************************************)
EXTENDS Integers, Sequences, FiniteSets

\* ---------------------------------------------------------------- bounds
\* Object numbers of the index are drawn from 1..MaxObjNum.
MaxObjNum == 3
\* An object's serialized length is 1 or MaxBytes.
MaxBytes == 2
\* Serialized length of the header.
HeaderBytes == 2
\* Serialized length of one cross-reference record.
XRefEntryBytes == 2
\* Serialized length of a trailer / pointer trailer.
TrailerBytes == 1

VARIABLES
  index,               \* pdfDoc.index.index, in Map iteration order
  maxObjNum,           \* pdfDoc.maxObjNum
  call,                \* the entry point that ran last
  error,               \* "" or the message of the error it threw
  body,                \* sortedIndex / streamObjects of that call
  nonStreamObjects,    \* nonStreamObjects of that call (compact path)
  objectStreamRef,     \* objectStreamRef of that call (compact path)
  xref,                \* table / xrefStream of that call
  trailer,             \* trailer of that call
  allocated,           \* whether `new Uint8Array(bufferSize)` was reached
  buffer,              \* the buffer, one cell per byte
  copies,              \* the copyBytesInto calls made, in order
  remaining            \* byte offset of `remaining` within buffer

vars == <<index, maxObjNum, call, error, body, nonStreamObjects,
          objectStreamRef, xref, trailer, allocated, buffer, copies,
          remaining>>

docVars == <<index, maxObjNum>>

\* ------------------------------------------------------------ data model
ObjectTypes == {"Catalog", "Stream", "Other"}

forNumbers(objectNumber, generationNumber) ==
  [objectNumber |-> objectNumber, generationNumber |-> generationNumber]

\* Stands for "no reference": object number 0 is the free-list head and is
\* never the number of an indirect object.
NoRef == forNumbers(0, 0)

\* A PDFObject: its dynamic type, its serialized length once framed as an
\* indirect object, and (for an object stream) the references it embeds.
PDFObjectOf(type, bytes, objects) ==
  [type |-> type, bytes |-> bytes, objects |-> objects]

\* PDFIndirectObject.of(object).setReference(ref)
PDFIndirectObjectOf(object, ref) == [reference |-> ref, pdfObject |-> object]

isCatalog(object) == object.type = "Catalog"
isStream(object) == object.type = "Stream"

RECURSIVE SumBytes(_)
SumBytes(units) ==
  IF units = <<>> THEN 0
  ELSE Head(units).pdfObject.bytes + SumBytes(Tail(units))

ObjectNumbers(entries) == {entries[k].ref.objectNumber : k \in 1..Len(entries)}

SetMax(S) == IF S = {} THEN 0 ELSE CHOOSE m \in S : \A n \in S : n <= m

\* Sequences over 1..MaxObjNum without repetition: the orders in which the
\* Map can have received its keys.
RECURSIVE Orders(_)
Orders(S) ==
  {<<>>} \cup UNION {{<<n>> \o o : o \in Orders(S \ {n})} : n \in S}

\* ---------------------------------------------------------------- sortIndex
\* Mutant: the comparator with its operands swapped.
compareReferences_Descending(a, b) == b.objectNumber - a.objectNumber

compareReferences(a, b) == a.objectNumber - b.objectNumber

\* Array.prototype.sort with a comparator: a stable sort.
RECURSIVE InsertSorted(_, _)
InsertSorted(unit, sorted) ==
  IF sorted = <<>> THEN <<unit>>
  ELSE IF compareReferences(Head(sorted).reference, unit.reference) <= 0
       THEN <<Head(sorted)>> \o InsertSorted(unit, Tail(sorted))
       ELSE <<unit>> \o sorted

RECURSIVE ArraySort(_)
ArraySort(arr) ==
  IF arr = <<>> THEN <<>>
  ELSE InsertSorted(arr[Len(arr)], ArraySort(SubSeq(arr, 1, Len(arr) - 1)))

\* index.forEach((object, ref) => indexArr.push(...))
indexArr(idx) ==
  [k \in 1..Len(idx) |-> PDFIndirectObjectOf(idx[k].object, idx[k].ref)]

sortIndex(idx) == ArraySort(indexArr(idx))

\* ------------------------------------------------- writable units, buffer
\* What copyBytesInto needs of a writable: which section it is, the
\* reference it carries (NoRef when it has none) and its bytesSize().
Writable(section, reference, bytes) ==
  [section |-> section, reference |-> reference, bytes |-> bytes]

\* pdfDoc.header
header == Writable("header", NoRef, HeaderBytes)

\* PDFIndirectObject.bytesSize()
bytesSize(unit) == unit.pdfObject.bytes

BodyUnit(unit) == Writable("body", unit.reference, bytesSize(unit))

\* A byte of the buffer: the unit that wrote it.  A fresh Uint8Array holds
\* zeros.
Cell(w) == [section |-> w.section, reference |-> w.reference]
ZeroCell == [section |-> "zero", reference |-> NoRef]

\* new Uint8Array(bufferSize), with `remaining` not yet taken from it.
NewUint8Array(bufferSize) ==
  [buffer |-> [k \in 1..bufferSize |-> ZeroCell], remaining |-> 0,
   copies |-> <<>>]

Min(a, b) == IF a <= b THEN a ELSE b

\* w.copyBytesInto(remaining): writes w's bytes at the start of `remaining`
\* and returns the rest of it.  A typed array drops writes past its end and
\* subarray clamps to it.
copyBytesInto(w, st) ==
  LET size == Len(st.buffer)
      end == Min(st.remaining + w.bytes, size)
  IN [buffer |-> SubSeq(st.buffer, 1, st.remaining)
                 \o [k \in 1..(end - st.remaining) |-> Cell(w)]
                 \o SubSeq(st.buffer, end + 1, size),
      remaining |-> end,
      copies |-> Append(st.copies,
                        [section |-> w.section, reference |-> w.reference,
                         start |-> st.remaining, bytes |-> w.bytes])]

\* units.forEach(u => remaining = u.copyBytesInto(remaining)) and the
\* equivalent reduce.
RECURSIVE copyEach(_, _)
copyEach(units, st) ==
  IF units = <<>> THEN st
  ELSE copyEach(Tail(units), copyBytesInto(BodyUnit(Head(units)), st))

\* ----------------------------------------------- cross-reference sections
XRefEntry(objectNumber, type, offset, generationNumber, streamObjNum, indexInStream) ==
  [objectNumber |-> objectNumber, type |-> type, offset |-> offset,
   generationNumber |-> generationNumber, streamObjNum |-> streamObjNum,
   indexInStream |-> indexInStream]

\* Entry 0, the head of the free list.
FreeHead == XRefEntry(0, "free", 0, 65535, 0, 0)

NoXRef == [kind |-> "none", entries |-> <<>>, Size |-> 0, Root |-> NoRef]
NoTrailer == [kind |-> "none", offset |-> 0, Size |-> 0, Root |-> NoRef]

\* table.bytesSize() / xrefStream.bytesSize(): fixed-width records.
xrefBytesSize(x) == Len(x.entries) * XRefEntryBytes
XRefUnit(x) == Writable("xref", NoRef, xrefBytesSize(x))

\* trailer.bytesSize()
trailerBytesSize(t) == TrailerBytes
TrailerUnit(t) == Writable("trailer", NoRef, trailerBytesSize(t))

\* One in-use record per object, its offset a running cursor advanced by
\* each object's byte length.
RECURSIVE InUseEntries(_, _)
InUseEntries(units, offset) ==
  IF units = <<>> THEN <<>>
  ELSE <<XRefEntry(Head(units).reference.objectNumber, "inUse", offset,
                   Head(units).reference.generationNumber, 0, 0)>>
       \o InUseEntries(Tail(units), offset + bytesSize(Head(units)))

\* PDFXRefTableFactory.forIndirectObjects(header, sortedIndex)
\*   -> [table, tableOffset]
XRefTableForIndirectObjects(hdr, sortedIndex) ==
  [table |-> [kind |-> "table",
              entries |-> <<FreeHead>> \o InUseEntries(sortedIndex, hdr.bytes),
              Size |-> 0, Root |-> NoRef],
   offset |-> hdr.bytes + SumBytes(sortedIndex)]

\* PDFTrailer.from(offset, dictionary)
PDFTrailerFrom(offset, dict) ==
  [kind |-> "trailer", offset |-> offset, Size |-> dict.Size,
   Root |-> dict.Root]

\* PDFTrailerX.from(offset): startxref and the offset, no dictionary.
PDFTrailerXFrom(offset) ==
  [kind |-> "pointer", offset |-> offset, Size |-> 0, Root |-> NoRef]

\* PDFObjectStream.create(index, nonStreamObjects).encode(): one stream
\* whose payload holds every given object.
PDFObjectStreamCreate(objects) ==
  PDFObjectOf("Stream", 1 + SumBytes(objects),
              [k \in 1..Len(objects) |-> objects[k].reference])

PositionsOf(n, refs) == {k \in 1..Len(refs) : refs[k].objectNumber = n}

\* The cross-reference stream's entry for object number n.
XRefStreamEntry(n, hdr, streamObjects, objectStreamIndObj) ==
  LET direct == {k \in 1..Len(streamObjects) :
                   streamObjects[k].reference.objectNumber = n}
      inside == PositionsOf(n, objectStreamIndObj.pdfObject.objects)
  IN IF n = 0 THEN FreeHead
     ELSE IF direct # {}
     THEN LET k == SetMax(direct)
          IN XRefEntry(n, "inUse",
                       hdr.bytes + SumBytes(SubSeq(streamObjects, 1, k - 1)),
                       streamObjects[k].reference.generationNumber, 0, 0)
     ELSE IF inside # {}
     THEN XRefEntry(n, "compressed", 0, 0,
                    objectStreamIndObj.reference.objectNumber,
                    SetMax(inside) - 1)
     ELSE XRefEntry(n, "free", 0, 0, 0, 0)

\* PDFXRefStreamFactory.forIndirectObjects(header, streamObjects,
\*   objectStreamIndObj, index, catalogRef) -> [offset, xrefStream]
XRefStreamForIndirectObjects(hdr, streamObjects, objectStreamIndObj, catalogRef) ==
  LET top == objectStreamIndObj.reference.objectNumber
  IN [offset |-> hdr.bytes + SumBytes(streamObjects),
      xrefStream |->
        [kind |-> "stream",
         entries |-> [k \in 1..(top + 1) |->
                        XRefStreamEntry(k - 1, hdr, streamObjects,
                                        objectStreamIndObj)],
         Size |-> top + 1, Root |-> catalogRef]]

\* ------------------------------------------------------------ saveToBytes
\* Mutant: the predicate tests for a dictionary-like object instead of a
\* Catalog, so any non-stream object matches.
findCatalog_AnyNonStream(units) ==
  LET hits == {k \in 1..Len(units) : ~isStream(units[k].pdfObject)}
  IN IF hits = {} THEN 0 ELSE CHOOSE k \in hits : \A j \in hits : k <= j

\* sortedIndex.find(({ pdfObject }) => pdfObject instanceof PDFCatalog):
\* the position of the first match, 0 when there is none.
findCatalog(units) ==
  LET hits == {k \in 1..Len(units) : isCatalog(units[k].pdfObject)}
  IN IF hits = {} THEN 0 ELSE CHOOSE k \in hits : \A j \in hits : k <= j

\* Mutant: Size without the free-list head.
trailerDictionary_SizeIsCount(sortedIndex, catalogRef) ==
  [Size |-> Len(sortedIndex), Root |-> catalogRef]

\* { Size: sortedIndex.length + 1, Root: catalogRef }
trailerDictionary(sortedIndex, catalogRef) ==
  [Size |-> Len(sortedIndex) + 1, Root |-> catalogRef]

\* Mutant: the trailer's length left out of the sum.
bufferSizeOf_NoTrailer(offset, xrefSection, tr) ==
  offset + xrefBytesSize(xrefSection)

\* bufferSize = tableOffset + table.bytesSize() + trailer.bytesSize()
bufferSizeOf(offset, xrefSection, tr) ==
  offset + xrefBytesSize(xrefSection) + trailerBytesSize(tr)

\* Mutant: the assembler walks the units from the last to the first.
writtenBody_Reversed(units) ==
  [k \in 1..Len(units) |-> units[Len(units) + 1 - k]]

\* The body units in the order the assembler copies them.
writtenBody(units) == units

\* new Uint8Array(bufferSize), then header, body, cross-reference section
\* and trailer copied in that order.
assemble(bufferSize, units, xrefSection, tr) ==
  LET s0 == NewUint8Array(bufferSize)
      s1 == copyBytesInto(header, s0)
      s2 == copyEach(writtenBody(units), s1)
      s3 == copyBytesInto(XRefUnit(xrefSection), s2)
  IN copyBytesInto(TrailerUnit(tr), s3)

\* error('Missing PDFCatalog'): the call ends here, with what it had
\* computed so far and no buffer.
Throw(name, message, units, others) ==
  /\ call' = name
  /\ error' = message
  /\ body' = units
  /\ nonStreamObjects' = others
  /\ objectStreamRef' = NoRef
  /\ xref' = NoXRef
  /\ trailer' = NoTrailer
  /\ allocated' = FALSE
  /\ buffer' = <<>>
  /\ copies' = <<>>
  /\ remaining' = 0

\* What a call that returns leaves behind.
Return(name, units, others, ref, xrefSection, tr, out) ==
  /\ call' = name
  /\ error' = ""
  /\ body' = units
  /\ nonStreamObjects' = others
  /\ objectStreamRef' = ref
  /\ xref' = xrefSection
  /\ trailer' = tr
  /\ allocated' = TRUE
  /\ buffer' = out.buffer
  /\ copies' = out.copies
  /\ remaining' = out.remaining

SaveToBytes ==
  \E sortedIndex \in {sortIndex(index)} :
    LET found == findCatalog(sortedIndex)
    IN /\ UNCHANGED docVars
       /\ IF found = 0
          THEN Throw("saveToBytes", "Missing PDFCatalog", sortedIndex, <<>>)
          ELSE \E built \in {XRefTableForIndirectObjects(header, sortedIndex)} :
                 LET catalogRef == sortedIndex[found].reference
                     tr == PDFTrailerFrom(
                             built.offset,
                             trailerDictionary(sortedIndex, catalogRef))
                     bufferSize == bufferSizeOf(built.offset, built.table, tr)
                 IN \E out \in {assemble(bufferSize, sortedIndex,
                                         built.table, tr)} :
                      Return("saveToBytes", sortedIndex, <<>>, NoRef,
                             built.table, tr, out)

\* ------------------------------------------- saveToBytesWithObjectStreams
\* The forEach over the index: stream objects to one sequence, all others
\* to the other, each framed with its own reference.
streamObjectsOf(idx) ==
  SelectSeq(indexArr(idx), LAMBDA u : isStream(u.pdfObject))

\* Mutant: the else branch also skips Catalogs.
nonStreamObjectsOf_DropsCatalog(idx) ==
  SelectSeq(indexArr(idx),
            LAMBDA u : ~isStream(u.pdfObject) /\ ~isCatalog(u.pdfObject))

nonStreamObjectsOf(idx) ==
  SelectSeq(indexArr(idx), LAMBDA u : ~isStream(u.pdfObject))

\* Mutant: pdfCatalogRef assigned on every visit, Catalog or not.
pdfCatalogRefOf_LastVisited(idx) ==
  IF idx = <<>> THEN NoRef ELSE idx[Len(idx)].ref

\* pdfCatalogRef after the forEach: the reference of the last Catalog
\* visited, NoRef (undefined) when none was.
pdfCatalogRefOf(idx) ==
  LET hits == {k \in 1..Len(idx) : isCatalog(idx[k].object)}
  IN IF hits = {} THEN NoRef ELSE idx[SetMax(hits)].ref

\* Mutant: maxObjNum itself.
objectStreamRefFor_Max(max) == forNumbers(max, 0)

\* PDFIndirectReference.forNumbers(maxObjNum + 1, 0)
objectStreamRefFor(max) == forNumbers(max + 1, 0)

\* Mutant: unshift instead of push.
pushObjectStream_Unshift(streamObjects, objectStreamIndObj) ==
  <<objectStreamIndObj>> \o streamObjects

\* streamObjects.push(objectStreamIndObj)
pushObjectStream(streamObjects, objectStreamIndObj) ==
  Append(streamObjects, objectStreamIndObj)

\* Everything saveToBytesWithObjectStreams computes, the document aside.
CompactWrite ==
  \E streamObjects \in {streamObjectsOf(index)},
     others \in {nonStreamObjectsOf(index)} :
    LET pdfCatalogRef == pdfCatalogRefOf(index)
    IN IF pdfCatalogRef = NoRef
       THEN Throw("saveToBytesWithObjectStreams", "Missing PDFCatalog",
                  streamObjects, others)
       ELSE \E objectStreamIndObj \in
                 {PDFIndirectObjectOf(PDFObjectStreamCreate(others),
                                      objectStreamRefFor(maxObjNum))} :
            \E pushed \in {pushObjectStream(streamObjects, objectStreamIndObj)} :
            \E built \in {XRefStreamForIndirectObjects(
                            header, pushed, objectStreamIndObj,
                            pdfCatalogRef)} :
              LET tr == PDFTrailerXFrom(built.offset)
                  bufferSize ==
                    bufferSizeOf(built.offset, built.xrefStream, tr)
              IN \E out \in {assemble(bufferSize, pushed,
                                      built.xrefStream, tr)} :
                   Return("saveToBytesWithObjectStreams", pushed, others,
                          objectStreamIndObj.reference, built.xrefStream,
                          tr, out)

\* Mutant: the object stream is registered in the document.
SaveToBytesWithObjectStreams_Registering ==
  /\ CompactWrite
  /\ IF objectStreamRef' = NoRef
     THEN UNCHANGED docVars
     ELSE /\ index' = Append(index,
                             [ref |-> objectStreamRef',
                              object |-> body'[Len(body')].pdfObject])
          /\ maxObjNum' = maxObjNum + 1

\* The writer only reads pdfDoc.index and pdfDoc.maxObjNum.
SaveToBytesWithObjectStreams == CompactWrite /\ UNCHANGED docVars

\* ---------------------------------------------------------- specification
\* A document as handed to the writer: any objects under distinct object
\* numbers, in any insertion order, each of the shortest or the longest
\* serialized length, with maxObjNum the largest number in use.
Init ==
  /\ \E order \in Orders(1..MaxObjNum) :
       \E types \in [1..Len(order) -> ObjectTypes],
          sizes \in [1..Len(order) -> {1, MaxBytes}] :
         index = [k \in 1..Len(order) |->
                    [ref |-> forNumbers(order[k], 0),
                     object |-> PDFObjectOf(types[k], sizes[k], <<>>)]]
  /\ maxObjNum = SetMax(ObjectNumbers(index))
  /\ call = "none"
  /\ error = ""
  /\ body = <<>>
  /\ nonStreamObjects = <<>>
  /\ objectStreamRef = NoRef
  /\ xref = NoXRef
  /\ trailer = NoTrailer
  /\ allocated = FALSE
  /\ buffer = <<>>
  /\ copies = <<>>
  /\ remaining = 0

Next == SaveToBytes \/ SaveToBytesWithObjectStreams

Spec == Init /\ [][Next]_vars

\* ------------------------------------------------------------- properties
Classic == call = "saveToBytes"
Compact == call = "saveToBytesWithObjectStreams"
Returned == call # "none" /\ error = ""

HasCatalog == \E k \in 1..Len(index) : isCatalog(index[k].object)

Count(seq, x) == Cardinality({k \in 1..Len(seq) : seq[k] = x})

EntriesOf(type) == {k \in 1..Len(xref.entries) : xref.entries[k].type = type}

EntriesFor(n, type) ==
  {k \in EntriesOf(type) : xref.entries[k].objectNumber = n}

BodyCopies == {k \in 1..Len(copies) : copies[k].section = "body"}

\* C1: a write (either path) over an index with no Catalog throws
\* 'Missing PDFCatalog', and at that point no buffer has been allocated and
\* no section copied.
C1_MissingRootFails ==
  (call # "none" /\ ~HasCatalog) =>
    /\ error = "Missing PDFCatalog"
    /\ ~allocated
    /\ buffer = <<>>
    /\ copies = <<>>

C1_Witness ==
  /\ Compact
  /\ error = "Missing PDFCatalog"
  /\ Len(index) = MaxObjNum
  /\ Len(body) > 0
  /\ Len(nonStreamObjects) > 0

\* C2: when a buffer is returned (either path) its length is header + body
\* units + cross-reference section + trailer; the copies start at 0, each
\* starts where the one before it ended, every byte of each copy lies in the
\* buffer and still holds what that copy wrote, and the cursor ends at the
\* end of the buffer.
C2_ExactSizing ==
  Returned =>
    /\ allocated
    /\ Len(buffer) = header.bytes + SumBytes(body) + xrefBytesSize(xref)
                       + trailerBytesSize(trailer)
    /\ Len(copies) = Len(body) + 3
    /\ copies[1].start = 0
    /\ \A i \in 1..(Len(copies) - 1) :
         copies[i + 1].start = copies[i].start + copies[i].bytes
    /\ copies[Len(copies)].start + copies[Len(copies)].bytes = Len(buffer)
    /\ \A i \in 1..Len(copies) :
         \A k \in (copies[i].start + 1)..(copies[i].start + copies[i].bytes) :
           /\ k <= Len(buffer)
           /\ buffer[k] = [section |-> copies[i].section,
                           reference |-> copies[i].reference]
    /\ remaining = Len(buffer)

C2_Witness ==
  /\ Compact
  /\ Returned
  /\ Len(body) = 3
  /\ Len(nonStreamObjects) = 1
  /\ \E i, j \in 1..Len(body) : bytesSize(body[i]) # bytesSize(body[j])

\* C3: when a buffer is returned (either path), every body unit has one
\* in-use entry whose offset is header length plus the lengths of the units
\* before it, that offset is where the assembler began copying the unit and
\* the byte there belongs to it; and the offset in the trailer is header
\* length plus all body lengths, which is where the cross-reference section
\* was copied.
C3_OffsetCorrectness ==
  Returned =>
    /\ \A k \in 1..Len(body) :
         \E e \in EntriesFor(body[k].reference.objectNumber, "inUse") :
           /\ xref.entries[e].offset =
                header.bytes + SumBytes(SubSeq(body, 1, k - 1))
           /\ \E c \in BodyCopies :
                /\ copies[c].reference = body[k].reference
                /\ copies[c].start = xref.entries[e].offset
           /\ buffer[xref.entries[e].offset + 1] =
                [section |-> "body", reference |-> body[k].reference]
    /\ \A e \in EntriesOf("inUse") :
         \E c \in BodyCopies :
           /\ copies[c].reference.objectNumber = xref.entries[e].objectNumber
           /\ copies[c].start = xref.entries[e].offset
    /\ trailer.offset = header.bytes + SumBytes(body)
    /\ \E c \in 1..Len(copies) :
         /\ copies[c].section = "xref"
         /\ copies[c].start = trailer.offset
    /\ buffer[trailer.offset + 1] = [section |-> "xref", reference |-> NoRef]

C3_Witness ==
  /\ Classic
  /\ Returned
  /\ Len(body) = 3
  /\ bytesSize(body[1]) # bytesSize(body[2])
  /\ xref.entries[4].offset = header.bytes + bytesSize(body[1])
                                + bytesSize(body[2])

Root == IF Classic THEN trailer.Root ELSE xref.Root

\* C4: when a buffer is returned (either path), Root is the reference of a
\* Catalog of the index (the Catalog, when there is one), and the
\* cross-reference section has an in-use entry for it: a direct offset at
\* which the Catalog's bytes start in the classic path, an entry naming the
\* object stream and the Catalog's place in it in the compact path.
C4_RootResolvable ==
  Returned =>
    /\ \E k \in 1..Len(index) :
         index[k].ref = Root /\ isCatalog(index[k].object)
    /\ Classic =>
         \E e \in EntriesFor(Root.objectNumber, "inUse") :
           buffer[xref.entries[e].offset + 1] =
             [section |-> "body", reference |-> Root]
    /\ Compact =>
         \E e \in EntriesFor(Root.objectNumber, "compressed") :
           /\ xref.entries[e].streamObjNum = objectStreamRef.objectNumber
           /\ xref.entries[e].indexInStream + 1 \in 1..Len(nonStreamObjects)
           /\ nonStreamObjects[xref.entries[e].indexInStream + 1].reference
                = Root
           /\ isCatalog(
                nonStreamObjects[xref.entries[e].indexInStream + 1].pdfObject)

C4_Witness ==
  /\ Compact
  /\ Returned
  /\ Len(index) = 3
  /\ Cardinality({k \in 1..Len(index) : isCatalog(index[k].object)}) = 1
  /\ ~isCatalog(index[1].object)
  /\ xref.Root = index[2].ref

\* C5: in a compact write every index entry, framed with its own reference,
\* is in exactly one of the two sequences exactly once, stream objects in the
\* stream-objects sequence and all others in the non-stream sequence; when a
\* buffer is returned every non-stream object has exactly one
\* embedded-in-object-stream entry, every stream object and the synthesized
\* object stream exactly one direct-offset entry, and the two kinds of entry
\* together number the index's objects plus one.
C5_PartitionComplete ==
  Compact =>
    /\ \A k \in 1..Len(index) :
         LET unit == PDFIndirectObjectOf(index[k].object, index[k].ref)
         IN IF isStream(index[k].object)
            THEN Count(body, unit) = 1 /\ Count(nonStreamObjects, unit) = 0
            ELSE Count(body, unit) = 0 /\ Count(nonStreamObjects, unit) = 1
    /\ Len(body) + Len(nonStreamObjects) =
         Len(index) + (IF Returned THEN 1 ELSE 0)
    /\ Returned =>
         /\ \A k \in 1..Len(nonStreamObjects) :
              LET n == nonStreamObjects[k].reference.objectNumber
              IN /\ Cardinality(EntriesFor(n, "compressed")) = 1
                 /\ EntriesFor(n, "inUse") = {}
                 /\ \A e \in EntriesFor(n, "compressed") :
                      /\ xref.entries[e].streamObjNum =
                           objectStreamRef.objectNumber
                      /\ xref.entries[e].indexInStream = k - 1
         /\ \A k \in 1..Len(body) :
              LET n == body[k].reference.objectNumber
              IN /\ Cardinality(EntriesFor(n, "inUse")) = 1
                 /\ EntriesFor(n, "compressed") = {}
         /\ Cardinality(EntriesOf("compressed")) = Len(nonStreamObjects)
         /\ Cardinality(EntriesOf("inUse")) = Len(body)
         /\ Cardinality(EntriesOf("compressed") \cup EntriesOf("inUse"))
              = Len(index) + 1

C5_Witness ==
  /\ Compact
  /\ Returned
  /\ Len(index) = 3
  /\ Len(nonStreamObjects) = 2
  /\ Len(body) = 2
  /\ isStream(index[2].object)
  /\ Cardinality(EntriesOf("compressed")) = 2

\* C6: in a compact write that returns, the object stream's reference is
\* (maxObjNum + 1, 0) and its object number is greater than every object
\* number of the index, so it is the reference of no index entry.
C6_NewReferenceUnique ==
  (Compact /\ Returned) =>
    /\ objectStreamRef = forNumbers(maxObjNum + 1, 0)
    /\ body[Len(body)].reference = objectStreamRef
    /\ \A k \in 1..Len(index) :
         /\ index[k].ref.objectNumber < objectStreamRef.objectNumber
         /\ index[k].ref # objectStreamRef

C6_Witness ==
  /\ Compact
  /\ Returned
  /\ Len(index) = 2
  /\ maxObjNum = MaxObjNum
  /\ objectStreamRef.objectNumber = MaxObjNum + 1

\* C7: in a classic write the sorted sequence holds every index entry framed
\* with its own reference exactly once and nothing else, in strictly
\* ascending object number whatever the index's iteration order; when a
\* buffer is returned the body copies and the table's in-use records follow
\* that sequence position by position.
C7_SortIndexSorted ==
  Classic =>
    /\ Len(body) = Len(index)
    /\ \A k \in 1..Len(index) :
         Count(body, PDFIndirectObjectOf(index[k].object, index[k].ref)) = 1
    /\ \A i, j \in 1..Len(body) :
         i < j => body[i].reference.objectNumber
                    < body[j].reference.objectNumber
    /\ Returned =>
         \A k \in 1..Len(body) :
           /\ copies[k + 1].section = "body"
           /\ copies[k + 1].reference = body[k].reference
           /\ copies[k + 1].bytes = bytesSize(body[k])
           /\ xref.entries[k + 1].objectNumber
                = body[k].reference.objectNumber

C7_Witness ==
  /\ Classic
  /\ Returned
  /\ Len(index) = 3
  /\ index[1].ref.objectNumber = 3
  /\ index[2].ref.objectNumber = 1
  /\ index[3].ref.objectNumber = 2
  /\ body[1].reference.objectNumber = 1
  /\ body[3].reference.objectNumber = 3

ClassicTableShape ==
  /\ trailer.Size = Len(index) + 1
  /\ Len(xref.entries) = trailer.Size
  /\ xref.entries[1] = FreeHead
  /\ \A k \in 2..Len(xref.entries) :
       /\ xref.entries[k].type = "inUse"
       /\ xref.entries[k - 1].objectNumber < xref.entries[k].objectNumber
       /\ \E j \in 1..Len(index) :
            index[j].ref.objectNumber = xref.entries[k].objectNumber

TableDense ==
  \A k \in 1..Len(xref.entries) : xref.entries[k].objectNumber = k - 1

C9_WriterNeverMutates ==
  [][/\ index' = index
     /\ maxObjNum' = maxObjNum
     /\ (objectStreamRef # NoRef /\ objectStreamRef' # NoRef)
          => objectStreamRef' = objectStreamRef]_vars

C9_Witness ==
  /\ Compact
  /\ Returned
  /\ Len(index) = 3
  /\ maxObjNum = 3
  /\ objectStreamRef = forNumbers(4, 0)
  /\ \A k \in 1..Len(index) : index[k].ref # objectStreamRef

StreamsOfIndex == streamObjectsOf(index)

\* C10: a compact write that returns copies the header, then the index's
\* stream objects, then the object stream as the last body unit, then the
\* cross-reference stream right where the object stream ended, then the
\* pointer trailer; the body holds the index's stream objects and the object
\* stream and nothing else.
C10_CompactSectionOrder ==
  (Compact /\ Returned) =>
    LET n == Len(copies)
    IN /\ n = Len(StreamsOfIndex) + 4
       /\ copies[1].section = "header"
       /\ \A k \in 1..Len(StreamsOfIndex) :
            /\ copies[k + 1].section = "body"
            /\ copies[k + 1].reference = StreamsOfIndex[k].reference
       /\ copies[n - 2].section = "body"
       /\ copies[n - 2].reference = objectStreamRef
       /\ copies[n - 1].section = "xref"
       /\ copies[n - 1].start = copies[n - 2].start + copies[n - 2].bytes
       /\ copies[n].section = "trailer"
       /\ trailer.kind = "pointer"
       /\ Len(body) = Len(StreamsOfIndex) + 1
       /\ \A k \in 1..Len(body) : isStream(body[k].pdfObject)
       /\ \A c \in BodyCopies :
            \A k \in 1..Len(nonStreamObjects) :
              copies[c].reference # nonStreamObjects[k].reference

C10_Witness ==
  /\ Compact
  /\ Returned
  /\ ObjectNumbers(index) = {1, 2, 3}
  /\ Len(nonStreamObjects) = 2
  /\ [k \in 1..Len(copies) |-> copies[k].reference.objectNumber]
       = <<0, 3, 4, 0, 0>>

====
